---------------------------- MODULE Spec2Model ----------------------------
(***************************************************************************)
(* Process and message handling of the MINIX kernel (kernel/proc.c):       *)
(* sys_call, mini_send, mini_receive, mini_alert, mini_notify, the ready   *)
(* queues (ready, unready, sched, pick_proc) and the lock_* gateways.      *)
(*                                                                         *)
(* The C functions are operators from a kernel state (a record holding the *)
(* process table, the ready queues and the notification pool) to the state *)
(* they leave behind, so that the calls one handler makes are composed in  *)
(* the order of the code.  Linked lists are kept as the code keeps them:   *)
(* head pointers plus the per-slot link fields, stale links included.      *)
(***************************************************************************)
EXTENDS Integers, Sequences, FiniteSets, TLC

(***************************************************************************)
(* Sizes of the scaled-down system.                                        *)
(***************************************************************************)
NR_TASKS == 3                   \* kernel tasks: IDLE, SYSTEM and HARDWARE
NR_PROCS == 4                   \* user-level slots 0 .. NR_PROCS-1
NR_SCHED_QUEUES == 4            \* ready queues 0 (highest) .. 3 (IDLE_Q)
BITCHUNK_BITS == 2              \* bits per chunk of a sys_map_t
NR_NOTIFY_BUFS == 2             \* size of the notify_buffer pool

MaxEntries == 4                 \* kernel entries of a run of Spec
MaxSchedEntries == 4            \* kernel entries of a run of SpecSched
MaxNtfEntries == 2              \* kernel entries of a run of SpecNtf
MaxCheckEntries == 4            \* kernel entries of a run of SpecCheck
MaxArg == 1                     \* NOTIFY_ARG / NOTIFY_FLAGS values: 0 .. MaxArg
MaxLockEntries == 3             \* gateway calls and traps of a run of SpecLock
MaxReenter == 1                 \* nested kernel entries of a run of SpecLock
MaxQueueEntries == 7            \* kernel entries of a run of SpecQueues

IDLE == 0 - 3
SYSTEM == 0 - 2
HARDWARE == 0 - 1               \* the pseudo-process interrupts alert from
ANY == 99
NIL_PROC == 0 - 9
NIL_NTF == 0 - 1                \* NULL notification pointer

NR_SYS_PROCS == NR_TASKS + NR_PROCS
NR_SYS_CHUNKS == (NR_SYS_PROCS + BITCHUNK_BITS - 1) \div BITCHUNK_BITS
IDLE_Q == NR_SCHED_QUEUES - 1

Slots == (0 - NR_TASKS) .. (NR_PROCS - 1)
FreeSlot == NR_PROCS - 1        \* the slot no process occupies
Live == Slots \ {FreeSlot}
Queues == 0 .. (NR_SCHED_QUEUES - 1)
Chunks == 0 .. (NR_SYS_CHUNKS - 1)
Bits == 0 .. (BITCHUNK_BITS - 1)
NtfIndex == 0 .. (NR_NOTIFY_BUFS - 1)

\* p_rts_flags bits
SENDING == "SENDING"
RECEIVING == "RECEIVING"
SLOT_FREE == "SLOT_FREE"
NO_MAP == "NO_MAP"              \* keeps HARDWARE from ever running

\* priv(rp)->s_flags bits
BILLABLE == "BILLABLE"
PREEMPTIBLE == "PREEMPTIBLE"
RDY_Q_HEAD == "RDY_Q_HEAD"

\* system call numbers and flags (call_nr = function + flags)
SEND == 1
RECEIVE == 2
SENDREC == 3
ALERT == 4
NOTIFY == 5
ECHO == 6
BADCALL == 7                    \* a function code no case of the switch names
NON_BLOCKING == "NON_BLOCKING"
FRESH_ANSWER == "FRESH_ANSWER"

\* results
OK == "OK"
ECALLDENIED == "ECALLDENIED"
EBADSRCDST == "EBADSRCDST"
EFAULT == "EFAULT"
EDEADDST == "EDEADDST"
ELOCKED == "ELOCKED"
ENOTREADY == "ENOTREADY"
EBADCALL == "EBADCALL"
ENOSPC == "ENOSPC"
NORETURN == "NORETURN"          \* no return: the kernel spins or runs wild

\* message pointers a caller can pass
BUF == "BUF"                    \* the caller's message buffer
BADPTR == "BADPTR"              \* an address outside data + gap + stack
NOBUF == "NOBUF"                \* p_messbuf before any call set it

NOTIFY_MESSAGE == 100
NOTIFY_FROM(src) == NOTIFY_MESSAGE + src + NR_TASKS

(***************************************************************************)
(* The privilege structures and the scheduling parameters of the boot      *)
(* image.  proc.c only reads them.                                         *)
(***************************************************************************)
iskerneln(n) == n < 0
iskernelp(p) == iskerneln(p)
isokprocn(n) == n \in Slots

s_id(p) == p + NR_TASKS
nr_to_id(n) == s_id(n)
id_to_nr(id) == id - NR_TASKS

s_flags(p) ==
    CASE p = IDLE -> {BILLABLE}
      [] p \in {SYSTEM, HARDWARE} -> {}
      [] p = 0 -> {BILLABLE, PREEMPTIBLE, RDY_Q_HEAD}
      [] OTHER -> {BILLABLE, PREEMPTIBLE}

\* IDLE never traps; user slot 2 may not NOTIFY.
s_call_mask(p) ==
    CASE p \in {IDLE, HARDWARE} -> {}
      [] p = 2 -> {SEND, RECEIVE, SENDREC, ALERT, ECHO, BADCALL}
      [] OTHER -> {SEND, RECEIVE, SENDREC, ALERT, NOTIFY, ECHO, BADCALL}

\* ids a slot may send to; user slot 1 may not send to SYSTEM.
s_send_mask(p) ==
    CASE p = 1 -> {nr_to_id(n) : n \in Slots \ {IDLE, SYSTEM}}
      [] OTHER -> {nr_to_id(n) : n \in Slots \ {IDLE}}

p_max_priority(p) ==
    CASE p = IDLE -> IDLE_Q
      [] p \in {SYSTEM, HARDWARE} -> 0
      [] OTHER -> 1

p_quantum_size(p) == 8

QUANTUMS(q) == 1 + (NR_SCHED_QUEUES - q) \div 2

VARIABLES
    p_rts_flags,        \* [Slots -> SUBSET {SENDING, RECEIVING, ...}]
    p_getfrom,          \* from whom the slot wants to receive
    p_sendto,           \* to whom the slot wants to send
    p_messbuf,          \* pointer to the message buffer of a blocked call
    p_caller_q,         \* head of the list of slots wishing to send to it
    p_q_link,           \* link to the next slot on a caller queue
    p_ntf_q,            \* head of the list of queued notifications
    p_priority,         \* current scheduling queue
    p_full_quantums,    \* full quantums left before demotion
    p_sched_ticks,      \* ticks left of the quantum
    p_nextready,        \* link to the next slot on a ready queue
    s_notify_pending,   \* [Slots -> [Chunks -> SUBSET Bits]]
    mem,                \* the message in each slot's buffer
    rdy_head, rdy_tail, \* the ready queues
    proc_ptr, next_ptr, bill_ptr,
    notify_buffer,      \* [NtfIndex -> notification record]
    notify_bitmap,      \* indices of notify_buffer in use
    k_reenter,          \* kernel reentry count: -1 outside the kernel
    interrupts,         \* the interrupt flag of the processor: "on" or "off"
    last,               \* the kernel entry that led to this state
    entries             \* kernel entries so far, where they are counted

vars == << p_rts_flags, p_getfrom, p_sendto, p_messbuf, p_caller_q, p_q_link,
           p_ntf_q, p_priority, p_full_quantums, p_sched_ticks, p_nextready,
           s_notify_pending, mem, rdy_head, rdy_tail, proc_ptr, next_ptr,
           bill_ptr, notify_buffer, notify_bitmap, k_reenter, interrupts,
           last, entries >>

\* The kernel state as one value.
State ==
    [ p_rts_flags |-> p_rts_flags, p_getfrom |-> p_getfrom,
      p_sendto |-> p_sendto, p_messbuf |-> p_messbuf,
      p_caller_q |-> p_caller_q, p_q_link |-> p_q_link, p_ntf_q |-> p_ntf_q,
      p_priority |-> p_priority, p_full_quantums |-> p_full_quantums,
      p_sched_ticks |-> p_sched_ticks, p_nextready |-> p_nextready,
      s_notify_pending |-> s_notify_pending, mem |-> mem,
      rdy_head |-> rdy_head, rdy_tail |-> rdy_tail, proc_ptr |-> proc_ptr,
      next_ptr |-> next_ptr, bill_ptr |-> bill_ptr,
      notify_buffer |-> notify_buffer, notify_bitmap |-> notify_bitmap,
      k_reenter |-> k_reenter, interrupts |-> interrupts,
      spin |-> FALSE ]      \* set by a loop of the code that never ends

Install(s) ==
    /\ p_rts_flags' = s.p_rts_flags
    /\ p_getfrom' = s.p_getfrom
    /\ p_sendto' = s.p_sendto
    /\ p_messbuf' = s.p_messbuf
    /\ p_caller_q' = s.p_caller_q
    /\ p_q_link' = s.p_q_link
    /\ p_ntf_q' = s.p_ntf_q
    /\ p_priority' = s.p_priority
    /\ p_full_quantums' = s.p_full_quantums
    /\ p_sched_ticks' = s.p_sched_ticks
    /\ p_nextready' = s.p_nextready
    /\ s_notify_pending' = s.s_notify_pending
    /\ mem' = s.mem
    /\ rdy_head' = s.rdy_head
    /\ rdy_tail' = s.rdy_tail
    /\ proc_ptr' = s.proc_ptr
    /\ next_ptr' = s.next_ptr
    /\ bill_ptr' = s.bill_ptr
    /\ notify_buffer' = s.notify_buffer
    /\ notify_bitmap' = s.notify_bitmap
    /\ k_reenter' = s.k_reenter
    /\ interrupts' = s.interrupts


(***************************************************************************)
(* pick_proc: next_ptr becomes the head of the first non-empty queue.      *)
(***************************************************************************)
RECURSIVE pick_from(_, _)
pick_from(s, q) ==
    IF q >= NR_SCHED_QUEUES THEN s
    ELSE IF s.rdy_head[q] /= NIL_PROC
         THEN LET rp == s.rdy_head[q]
                  s1 == [s EXCEPT !.next_ptr = rp]
              IN  IF BILLABLE \in s_flags(rp)
                  THEN [s1 EXCEPT !.bill_ptr = rp]
                  ELSE s1
         ELSE pick_from(s, q + 1)

\* A variant of pick_proc that looks at the first queue only.
pick_proc_first_queue(s) ==
    IF s.rdy_head[0] /= NIL_PROC THEN pick_from(s, 0) ELSE s

pick_proc(s) == pick_from(s, 0)

(***************************************************************************)
(* ready: add rp to the queue of its priority, then pick_proc.            *)
(***************************************************************************)
\* A variant of ready that adds behind the tail without moving rdy_tail.
ready_keeps_tail(s, rp) ==
    LET q == s.p_priority[rp]
        s1 == IF s.rdy_head[q] = NIL_PROC
              THEN [s EXCEPT !.rdy_head[q] = rp, !.rdy_tail[q] = rp,
                             !.p_nextready[rp] = NIL_PROC]
              ELSE IF RDY_Q_HEAD \in s_flags(rp)
              THEN [s EXCEPT !.p_nextready[rp] = s.rdy_head[q],
                             !.rdy_head[q] = rp]
              ELSE [s EXCEPT !.p_nextready[s.rdy_tail[q]] = rp,
                             !.p_nextready[rp] = NIL_PROC]
    IN  pick_proc(s1)

ready(s, rp) ==
    LET q == s.p_priority[rp]
        s1 == IF s.rdy_head[q] = NIL_PROC
              THEN [s EXCEPT !.rdy_head[q] = rp, !.rdy_tail[q] = rp,
                             !.p_nextready[rp] = NIL_PROC]
              ELSE IF RDY_Q_HEAD \in s_flags(rp)
              THEN [s EXCEPT !.p_nextready[rp] = s.rdy_head[q],
                             !.rdy_head[q] = rp]
              ELSE LET t == [s EXCEPT !.p_nextready[s.rdy_tail[q]] = rp,
                                      !.rdy_tail[q] = rp]
                   IN  [t EXCEPT !.p_nextready[rp] = NIL_PROC]
    IN  pick_proc(s1)

(***************************************************************************)
(* unready: unlink rp from the queue of its priority if it is there, then  *)
(* reset its priority and quantums.  prev is NIL_PROC while xpp still      *)
(* points at rdy_head[q].  The stack guard of a kernel task is intact.     *)
(***************************************************************************)
RECURSIVE unready_walk(_, _, _, _, _, _)
unready_walk(s, rp, q, prev_xp, xp, fuel) ==
    IF xp = NIL_PROC THEN s
    ELSE IF fuel = 0 THEN [s EXCEPT !.spin = TRUE]
    ELSE IF xp = rp
    THEN LET s1 == IF prev_xp = NIL_PROC
                   THEN [s EXCEPT !.rdy_head[q] = s.p_nextready[rp]]
                   ELSE [s EXCEPT !.p_nextready[prev_xp] = s.p_nextready[rp]]
             s2 == IF rp = s1.rdy_tail[q]
                   THEN [s1 EXCEPT !.rdy_tail[q] = prev_xp]
                   ELSE s1
         IN  IF rp = s2.proc_ptr \/ rp = s2.next_ptr THEN pick_proc(s2) ELSE s2
    ELSE unready_walk(s, rp, q, xp, s.p_nextready[xp], fuel - 1)
\* A variant of unready that leaves the ready queues as they are.
unready_stays_linked(s, rp) ==
    [s EXCEPT !.p_priority[rp] = p_max_priority(rp),
              !.p_full_quantums[rp] = QUANTUMS(p_max_priority(rp))]

\* A variant of unready that leaves the priority and the quantums alone.
unready_keeps_priority(s, rp) ==
    LET q == s.p_priority[rp]
    IN  unready_walk(s, rp, q, NIL_PROC, s.rdy_head[q], Cardinality(Slots))

unready(s, rp) ==
    LET q == s.p_priority[rp]
        s1 == unready_walk(s, rp, q, NIL_PROC, s.rdy_head[q],
                           Cardinality(Slots))
    IN  [s1 EXCEPT !.p_priority[rp] = p_max_priority(rp),
                   !.p_full_quantums[rp] = QUANTUMS(p_max_priority(rp))]

(***************************************************************************)
(* sched: rp used up a quantum.                                            *)
(***************************************************************************)
\* A variant of sched_demote that lowers the priority whatever queue is next.
sched_demote_unbounded(s, sp) ==
    LET s1 == [s EXCEPT !.p_full_quantums[sp] = @ - 1]
    IN  IF s1.p_full_quantums[sp] <= 0
        THEN LET q == s1.p_priority[sp] + 1
                 u == unready(s1, sp)
                 s2 == ready([u EXCEPT !.p_priority[sp] = q], sp)
             IN  [s2 EXCEPT !.p_full_quantums[sp] = QUANTUMS(s2.p_priority[sp])]
        ELSE s1

sched_demote(s, sp) ==
    LET s1 == [s EXCEPT !.p_full_quantums[sp] = @ - 1]
    IN  IF s1.p_full_quantums[sp] <= 0
        THEN LET s2 == IF s1.p_priority[sp] + 1 < IDLE_Q
                       THEN LET q == s1.p_priority[sp] + 1
                                u == unready(s1, sp)
                            IN  ready([u EXCEPT !.p_priority[sp] = q], sp)
                       ELSE s1
             IN  [s2 EXCEPT !.p_full_quantums[sp] = QUANTUMS(s2.p_priority[sp])]
        ELSE s1

\* A variant of sched_rotate that leaves the head of the queue where it is.
sched_rotate_never(s, sp) ==
    s

sched_rotate(s, sp) ==
    LET q == s.p_priority[sp]
    IN  IF s.rdy_head[q] = sp
        THEN LET a == [s EXCEPT !.p_nextready[s.rdy_tail[q]] = s.rdy_head[q]]
                 b == [a EXCEPT !.rdy_tail[q] = a.rdy_head[q]]
                 c == [b EXCEPT !.rdy_head[q] = b.p_nextready[b.rdy_head[q]]]
             IN  [c EXCEPT !.p_nextready[c.rdy_tail[q]] = NIL_PROC]
        ELSE s

\* A variant of sched that does not elect a process at its end.
sched_without_pick(s, sp) ==
    IF PREEMPTIBLE \notin s_flags(sp) THEN s
    ELSE LET s1 == sched_rotate(sched_demote(s, sp), sp)
         IN  [s1 EXCEPT !.p_sched_ticks[sp] = p_quantum_size(sp)]

sched(s, sp) ==
    IF PREEMPTIBLE \notin s_flags(sp) THEN s
    ELSE LET s1 == sched_rotate(sched_demote(s, sp), sp)
         IN  pick_proc([s1 EXCEPT !.p_sched_ticks[sp] = p_quantum_size(sp)])


(***************************************************************************)
(* Messages.  A message is the record of the fields the code names; a copy *)
(* (cp_mess) stamps the source in the destination buffer.                  *)
(***************************************************************************)
Ret(s, r) == [s |-> s, r |-> r]
\* A variant of the copy that does not stamp the source.
CopyMess_unstamped(s, src_nr, m, dp) == [s EXCEPT !.mem[dp] = m]

CopyMess(s, src_nr, m, dp) ==
    [s EXCEPT !.mem[dp] = [m EXCEPT !.m_source = src_nr]]

\* BuildMess fills m_source and m_type, and NOTIFY_ARG for HARDWARE and
\* SYSTEM from s_int_pending and s_sig_pending, which nothing in proc.c sets
\* (they are 0 here); the other fields of the local message m keep what the
\* stack held (junk).
BuildMess(junk, src) ==
    [ m_source |-> src, m_type |-> NOTIFY_FROM(src),
      NOTIFY_ARG |-> IF src \in {HARDWARE, SYSTEM} THEN 0
                     ELSE junk.NOTIFY_ARG,
      NOTIFY_FLAGS |-> junk.NOTIFY_FLAGS ]

BuildOldMess(junk, n) ==
    [ m_source |-> n.n_source, m_type |-> n.n_type,
      NOTIFY_ARG |-> n.n_arg, NOTIFY_FLAGS |-> n.n_flags ]

(***************************************************************************)
(* mini_send                                                               *)
(***************************************************************************)
\* A variant of the deadlock check that looks one hop ahead only.
deadlock_walk_one_hop(s, caller, xp, fuel) ==
    IF SENDING \in s.p_rts_flags[xp] /\ s.p_sendto[xp] = caller
    THEN "locked" ELSE "free"

\* The deadlock check: "free" when the chain ends, "locked" when it reaches
\* the caller, "spin" when it runs in a cycle that misses the caller.
RECURSIVE deadlock_walk(_, _, _, _)
deadlock_walk(s, caller, xp, fuel) ==
    IF SENDING \notin s.p_rts_flags[xp] THEN "free"
    ELSE LET nxt == s.p_sendto[xp]
         IN  IF nxt = caller THEN "locked"
             ELSE IF fuel = 0 THEN "spin"
             ELSE deadlock_walk(s, caller, nxt, fuel - 1)

\* The last slot of the caller queue that starts at xp (xp /= NIL_PROC).
RECURSIVE caller_q_end(_, _, _)
caller_q_end(s, xp, fuel) ==
    IF s.p_q_link[xp] = NIL_PROC \/ fuel = 0 THEN xp
    ELSE caller_q_end(s, s.p_q_link[xp], fuel - 1)

\* A variant of is_waiting_for that does not look at SENDING.
is_waiting_for_while_sending(s, dst, caller) ==
    /\ RECEIVING \in s.p_rts_flags[dst]
    /\ s.p_getfrom[dst] = ANY \/ s.p_getfrom[dst] = caller

is_waiting_for(s, dst, caller) ==
    /\ s.p_rts_flags[dst] \cap {RECEIVING, SENDING} = {RECEIVING}
    /\ s.p_getfrom[dst] = ANY \/ s.p_getfrom[dst] = caller
\* A variant of deblock that does not put the destination on a ready queue.
deblock_no_ready(s, dst) ==
    [s EXCEPT !.p_rts_flags[dst] = @ \ {RECEIVING}]

\* dst_ptr->p_rts_flags &= ~RECEIVING, and ready(dst_ptr) if nothing is left
deblock(s, dst) ==
    LET s1 == [s EXCEPT !.p_rts_flags[dst] = @ \ {RECEIVING}]
    IN  IF s1.p_rts_flags[dst] = {} THEN ready(s1, dst) ELSE s1
\* A variant of the slow path of mini_send that leaves p_sendto as it was.
send_block_stale_sendto(s, caller, dst, m_ptr) ==
    LET s1 == [s EXCEPT !.p_messbuf[caller] = m_ptr]
        s2 == IF s1.p_rts_flags[caller] = {} THEN unready(s1, caller) ELSE s1
        s3 == [s2 EXCEPT !.p_rts_flags[caller] = @ \cup {SENDING}]
        s4 == IF s3.p_caller_q[dst] = NIL_PROC
              THEN [s3 EXCEPT !.p_caller_q[dst] = caller]
              ELSE [s3 EXCEPT !.p_q_link[caller_q_end(s3, s3.p_caller_q[dst],
                                           Cardinality(Slots))] = caller]
    IN  [s4 EXCEPT !.p_q_link[caller] = NIL_PROC]

\* A variant of the slow path of mini_send that queues the caller in front.
send_block_in_front(s, caller, dst, m_ptr) ==
    LET s1 == [s EXCEPT !.p_messbuf[caller] = m_ptr]
        s2 == IF s1.p_rts_flags[caller] = {} THEN unready(s1, caller) ELSE s1
        s3 == [s2 EXCEPT !.p_rts_flags[caller] = @ \cup {SENDING},
                         !.p_sendto[caller] = dst]
    IN  [s3 EXCEPT !.p_q_link[caller] = s3.p_caller_q[dst],
                   !.p_caller_q[dst] = caller]

send_block(s, caller, dst, m_ptr) ==
    LET s1 == [s EXCEPT !.p_messbuf[caller] = m_ptr]
        s2 == IF s1.p_rts_flags[caller] = {} THEN unready(s1, caller) ELSE s1
        s3 == [s2 EXCEPT !.p_rts_flags[caller] = @ \cup {SENDING},
                         !.p_sendto[caller] = dst]
        s4 == IF s3.p_caller_q[dst] = NIL_PROC
              THEN [s3 EXCEPT !.p_caller_q[dst] = caller]
              ELSE [s3 EXCEPT !.p_q_link[caller_q_end(s3, s3.p_caller_q[dst],
                                           Cardinality(Slots))] = caller]
    IN  [s4 EXCEPT !.p_q_link[caller] = NIL_PROC]

\* A variant of mini_send that blocks whatever the flags say.
mini_send_ignores_flags(s, caller, dst, m_ptr, flags) ==
    LET walk == deadlock_walk(s, caller, dst, Cardinality(Slots))
    IN  IF walk = "spin" THEN Ret([s EXCEPT !.spin = TRUE], NORETURN)
        ELSE IF walk = "locked" THEN Ret(s, ELOCKED)
        ELSE IF is_waiting_for(s, dst, caller)
        THEN Ret(deblock(CopyMess(s, caller, s.mem[caller], dst), dst), OK)
        ELSE Ret(send_block(s, caller, dst, m_ptr), OK)

mini_send(s, caller, dst, m_ptr, flags) ==
    LET walk == deadlock_walk(s, caller, dst, Cardinality(Slots))
    IN  IF walk = "spin" THEN Ret([s EXCEPT !.spin = TRUE], NORETURN)
        ELSE IF walk = "locked" THEN Ret(s, ELOCKED)
        ELSE IF is_waiting_for(s, dst, caller)
        THEN Ret(deblock(CopyMess(s, caller, s.mem[caller], dst), dst), OK)
        ELSE IF NON_BLOCKING \notin flags
        THEN Ret(send_block(s, caller, dst, m_ptr), OK)
        ELSE Ret(s, ENOTREADY)

(***************************************************************************)
(* mini_receive                                                            *)
(***************************************************************************)
MinOf(S) == CHOOSE i \in S : \A j \in S : i <= j

\* The scan of the pending bitmap: the lowest bit of each non-empty chunk is
\* looked at, and the chunk is left behind when its source is not wanted.
RECURSIVE pending_scan(_, _, _, _)
pending_scan(s, caller, src, chunk) ==
    IF chunk >= NR_SYS_CHUNKS THEN [found |-> FALSE]
    ELSE IF s.s_notify_pending[caller][chunk] = {}
    THEN pending_scan(s, caller, src, chunk + 1)
    ELSE LET i == MinOf(s.s_notify_pending[caller][chunk])
             src_id == chunk * BITCHUNK_BITS + i
             src_proc_nr == id_to_nr(src_id)
         IN  IF src_id >= NR_SYS_PROCS THEN [found |-> FALSE]
             ELSE IF src /= ANY /\ src /= src_proc_nr
             THEN pending_scan(s, caller, src, chunk + 1)
             ELSE [found |-> TRUE, chunk |-> chunk, i |-> i,
                   src_proc_nr |-> src_proc_nr]
\* A variant of the delivery of a pending alert that leaves the bit set.
receive_pending_keeps_bit(s, caller, hit, junk) ==
    CopyMess(s, hit.src_proc_nr, BuildMess(junk, hit.src_proc_nr), caller)

receive_pending(s, caller, hit, junk) ==
    LET s1 == [s EXCEPT !.s_notify_pending[caller][hit.chunk] = @ \ {hit.i}]
    IN  CopyMess(s1, hit.src_proc_nr, BuildMess(junk, hit.src_proc_nr), caller)

free_bit(s, bit_nr) == [s EXCEPT !.notify_bitmap = @ \ {bit_nr}]

\* The scan of p_ntf_q: prev is NIL_NTF while ntf_q_pp points at p_ntf_q.
RECURSIVE ntf_scan(_, _, _, _, _, _)
ntf_scan(s, caller, src, prev, np, fuel) ==
    IF np = NIL_NTF \/ fuel = 0 THEN [found |-> FALSE]
    ELSE IF src = ANY \/ src = s.notify_buffer[np].n_source
    THEN [found |-> TRUE, prev |-> prev, np |-> np]
    ELSE ntf_scan(s, caller, src, np, s.notify_buffer[np].n_next, fuel - 1)

receive_ntf(s, caller, hit, junk) ==
    LET n == s.notify_buffer[hit.np]
        s1 == CopyMess(s, n.n_source, BuildOldMess(junk, n), caller)
        s2 == IF hit.prev = NIL_NTF
              THEN [s1 EXCEPT !.p_ntf_q[caller] = n.n_next]
              ELSE [s1 EXCEPT !.notify_buffer[hit.prev].n_next = n.n_next]
    IN  free_bit(s2, hit.np)

\* The scan of p_caller_q: prev is NIL_PROC while xpp points at p_caller_q.
RECURSIVE caller_scan(_, _, _, _, _, _)
caller_scan(s, caller, src, prev, xp, fuel) ==
    IF xp = NIL_PROC \/ fuel = 0 THEN [found |-> FALSE]
    ELSE IF src = ANY \/ src = xp
    THEN [found |-> TRUE, prev |-> prev, xp |-> xp]
    ELSE caller_scan(s, caller, src, xp, s.p_q_link[xp], fuel - 1)

\* A variant of receive_sender that leaves the sender on the queue.
receive_sender_stays_queued(s, caller, hit) ==
    LET xp == hit.xp
        s1 == CopyMess(s, xp, s.mem[xp], caller)
        s2 == [s1 EXCEPT !.p_rts_flags[xp] = @ \ {SENDING}]
    IN  IF s2.p_rts_flags[xp] = {} THEN ready(s2, xp) ELSE s2

receive_sender(s, caller, hit) ==
    LET xp == hit.xp
        s1 == CopyMess(s, xp, s.mem[xp], caller)
        s2 == [s1 EXCEPT !.p_rts_flags[xp] = @ \ {SENDING}]
        s3 == IF s2.p_rts_flags[xp] = {} THEN ready(s2, xp) ELSE s2
    IN  IF hit.prev = NIL_PROC
        THEN [s3 EXCEPT !.p_caller_q[caller] = s3.p_q_link[xp]]
        ELSE [s3 EXCEPT !.p_q_link[hit.prev] = s3.p_q_link[xp]]

receive_block(s, caller, src, m_ptr, flags) ==
    IF NON_BLOCKING \notin flags
    THEN LET s1 == [s EXCEPT !.p_getfrom[caller] = src,
                             !.p_messbuf[caller] = m_ptr]
             s2 == IF s1.p_rts_flags[caller] = {} THEN unready(s1, caller)
                   ELSE s1
         IN  Ret([s2 EXCEPT !.p_rts_flags[caller] = @ \cup {RECEIVING}], OK)
    ELSE Ret(s, ENOTREADY)

mini_receive(s, caller, src, m_ptr, flags, junk) ==
    LET bit == IF FRESH_ANSWER \notin flags
               THEN pending_scan(s, caller, src, 0)
               ELSE [found |-> FALSE]
        ntf == IF FRESH_ANSWER \notin flags
               THEN ntf_scan(s, caller, src, NIL_NTF, s.p_ntf_q[caller],
                             NR_NOTIFY_BUFS + 1)
               ELSE [found |-> FALSE]
        snd == caller_scan(s, caller, src, NIL_PROC, s.p_caller_q[caller],
                           Cardinality(Slots) + 1)
    IN  IF SENDING \in s.p_rts_flags[caller]
        THEN receive_block(s, caller, src, m_ptr, flags)
        ELSE IF bit.found THEN Ret(receive_pending(s, caller, bit, junk), OK)
        ELSE IF ntf.found THEN Ret(receive_ntf(s, caller, ntf, junk), OK)
        ELSE IF snd.found THEN Ret(receive_sender(s, caller, snd), OK)
        ELSE receive_block(s, caller, src, m_ptr, flags)


(***************************************************************************)
(* mini_alert                                                              *)
(***************************************************************************)
set_sys_bit(s, dst, id) ==
    [s EXCEPT !.s_notify_pending[dst][id \div BITCHUNK_BITS] =
                  @ \cup {id % BITCHUNK_BITS}]

mini_alert(s, caller, dst, junk) ==
    IF is_waiting_for(s, dst, caller)
    THEN LET s1 == CopyMess(s, caller, BuildMess(junk, caller), dst)
             s2 == [s1 EXCEPT !.p_rts_flags[dst] = @ \ {RECEIVING}]
         IN  Ret(IF s2.p_rts_flags[dst] = {} THEN ready(s2, dst) ELSE s2, OK)
    ELSE Ret(set_sys_bit(s, dst, s_id(caller)), OK)

(***************************************************************************)
(* mini_notify                                                             *)
(***************************************************************************)
\* A variant of alloc_bit that hands out buffer 0 again when none is free.
alloc_bit_reuses(s) ==
    IF NtfIndex \ s.notify_bitmap = {} THEN 0
    ELSE MinOf(NtfIndex \ s.notify_bitmap)

\* The first free index of the pool, or -1.
alloc_bit(s) ==
    IF NtfIndex \ s.notify_bitmap = {} THEN 0 - 1
    ELSE MinOf(NtfIndex \ s.notify_bitmap)
\* A variant of the walk of p_ntf_q that does not compare the type.
RECURSIVE ntf_find_any_type(_, _, _, _, _, _)
ntf_find_any_type(s, caller, type, prev, np, fuel) ==
    IF np = NIL_NTF \/ fuel = 0 THEN [hit |-> FALSE, prev |-> prev]
    ELSE IF s.notify_buffer[np].n_source = caller
    THEN [hit |-> TRUE, np |-> np]
    ELSE ntf_find_any_type(s, caller, type, np, s.notify_buffer[np].n_next,
                           fuel - 1)

\* The walk of dst's p_ntf_q for a record of this source and type; it ends
\* at the record ("hit") or at the last record of the queue ("end").
RECURSIVE ntf_find(_, _, _, _, _, _)
ntf_find(s, caller, type, prev, np, fuel) ==
    IF np = NIL_NTF \/ fuel = 0 THEN [hit |-> FALSE, prev |-> prev]
    ELSE IF s.notify_buffer[np].n_type = type
            /\ s.notify_buffer[np].n_source = caller
    THEN [hit |-> TRUE, np |-> np]
    ELSE ntf_find(s, caller, type, np, s.notify_buffer[np].n_next, fuel - 1)

notify_enqueue(s, caller, dst, m, ntf_index, prev) ==
    LET s1 == [s EXCEPT !.notify_bitmap = @ \cup {ntf_index}]
        s2 == [s1 EXCEPT !.notify_buffer[ntf_index].n_source = caller,
                         !.notify_buffer[ntf_index].n_type = m.m_type,
                         !.notify_buffer[ntf_index].n_flags = m.NOTIFY_FLAGS,
                         !.notify_buffer[ntf_index].n_arg = m.NOTIFY_ARG]
        s3 == IF prev = NIL_NTF
              THEN [s2 EXCEPT !.p_ntf_q[dst] = ntf_index]
              ELSE [s2 EXCEPT !.notify_buffer[prev].n_next = ntf_index]
    IN  [s3 EXCEPT !.notify_buffer[ntf_index].n_next = NIL_NTF]

mini_notify(s, caller, dst, m_ptr) ==
    LET m == s.mem[caller]
        f == ntf_find(s, caller, m.m_type, NIL_NTF, s.p_ntf_q[dst],
                      NR_NOTIFY_BUFS + 1)
        ntf_index == alloc_bit(s)
    IN  IF is_waiting_for(s, dst, caller)
        THEN LET s1 == CopyMess(s, caller, m, dst)
                 s2 == [s1 EXCEPT !.p_rts_flags[dst] = @ \ {RECEIVING}]
             IN  Ret(IF s2.p_rts_flags[dst] = {} THEN ready(s2, dst) ELSE s2,
                     OK)
        ELSE IF f.hit
        THEN Ret([s EXCEPT !.notify_buffer[f.np].n_flags = m.NOTIFY_FLAGS,
                           !.notify_buffer[f.np].n_arg = m.NOTIFY_ARG], OK)
        ELSE IF ntf_index < 0 THEN Ret(s, ENOSPC)
        ELSE Ret(notify_enqueue(s, caller, dst, m, ntf_index, f.prev), OK)

(***************************************************************************)
(* sys_call                                                                *)
(***************************************************************************)
isemptyn(s, n) == s.p_rts_flags[n] = {SLOT_FREE}

has_bits(function, mask) == \E b \in {1, 2, 4} :
    /\ (function \div b) % 2 = 1
    /\ (mask \div b) % 2 = 1
\* A variant of the checks that looks at the message pointer before the
\* process number.
sys_call_check_pointer_first(s, caller, function, src_dst, m_ptr, wild) ==
    IF function \notin s_call_mask(caller)
       \/ (iskerneln(src_dst) /\ function /= SENDREC)
    THEN ECALLDENIED
    ELSE IF has_bits(function, SENDREC) /\ m_ptr = BADPTR THEN EFAULT
    ELSE IF ~ (isokprocn(src_dst) \/ src_dst = ANY \/ function = ECHO)
    THEN EBADSRCDST
    ELSE IF has_bits(function, SEND)
    THEN IF ~ isokprocn(src_dst) THEN wild
         ELSE IF nr_to_id(src_dst) \notin s_send_mask(caller)
         THEN ECALLDENIED
         ELSE IF isemptyn(s, src_dst) THEN EDEADDST
         ELSE OK
    ELSE OK

\* The codes of the checks before the switch; OK when all pass.  For a
\* src_dst of ANY with the SEND bit set the send mask and the slot are read
\* outside the process table: wild names what that read yields.
sys_call_check(s, caller, function, src_dst, m_ptr, wild) ==
    IF function \notin s_call_mask(caller)
       \/ (iskerneln(src_dst) /\ function /= SENDREC)
    THEN ECALLDENIED
    ELSE IF ~ (isokprocn(src_dst) \/ src_dst = ANY \/ function = ECHO)
    THEN EBADSRCDST
    ELSE IF has_bits(function, SENDREC) /\ m_ptr = BADPTR THEN EFAULT
    ELSE IF has_bits(function, SEND)
    THEN IF ~ isokprocn(src_dst) THEN wild
         ELSE IF nr_to_id(src_dst) \notin s_send_mask(caller)
         THEN ECALLDENIED
         ELSE IF isemptyn(s, src_dst) THEN EDEADDST
         ELSE OK
    ELSE OK

sys_call_switch(s, caller, function, flags, src_dst, m_ptr, junk) ==
    IF function \in {SENDREC, SEND}
    THEN LET snd == mini_send(s, caller, src_dst, m_ptr, flags)
         IN  IF function = SEND \/ snd.r /= OK THEN snd
             ELSE mini_receive(snd.s, caller, src_dst, m_ptr, flags, junk)
    ELSE IF function = RECEIVE
    THEN mini_receive(s, caller, src_dst, m_ptr, flags, junk)
    ELSE IF function = ALERT
    THEN IF isokprocn(src_dst) THEN mini_alert(s, caller, src_dst, junk)
         ELSE Ret(s, NORETURN)      \* proc_addr(ANY) is no slot of the table
    ELSE IF function = NOTIFY THEN mini_notify(s, caller, src_dst, m_ptr)
    ELSE IF function = ECHO
    THEN Ret(CopyMess(s, caller, s.mem[caller], caller), OK)
    ELSE Ret(s, EBADCALL)

sys_call(s, function, flags, src_dst, m_ptr, junk, wild) ==
    LET caller_ptr == s.proc_ptr
        chk == sys_call_check(s, caller_ptr, function, src_dst, m_ptr, wild)
    IN  IF chk /= OK THEN Ret(s, chk)
        ELSE sys_call_switch(s, caller_ptr, function, flags, src_dst, m_ptr,
                             junk)


(***************************************************************************)
(* The kernel entries as actions.  Each one ends with the return to user   *)
(* level (restart), which makes the elected process the running one.       *)
(* An action takes the sets its inputs are drawn from, so that each        *)
(* specification below states which calls its processes make.              *)
(***************************************************************************)
restart(s) == [s EXCEPT !.proc_ptr = s.next_ptr]

Junk == [NOTIFY_ARG : 0 .. MaxArg, NOTIFY_FLAGS : 0 .. MaxArg]
ZeroJunk == [NOTIFY_ARG |-> 0, NOTIFY_FLAGS |-> 0]
Wild == {ECALLDENIED, EDEADDST, NORETURN}
FlagSets == SUBSET {NON_BLOCKING, FRESH_ANSWER}
ZeroMess == [m_source |-> 0, m_type |-> 0, NOTIFY_ARG |-> 0, NOTIFY_FLAGS |-> 0]
ZeroNtf == [n_source |-> 0, n_type |-> 0, n_flags |-> 0, n_arg |-> 0,
            n_next |-> NIL_NTF]

\* The messages a process writes before it sends or notifies.
UserMessages(types, args) ==
    [m_source : {0}, m_type : types, NOTIFY_ARG : args, NOTIFY_FLAGS : args]

\* A run of at most n kernel entries, and a run of any length.
Counted(n, A) == entries < n /\ A /\ entries' = entries + 1
Uncounted(A) == A /\ UNCHANGED entries

Entry(op, caller, function, src_dst, result) ==
    [op |-> op, caller |-> caller, function |-> function, src_dst |-> src_dst,
     result |-> result]

Running == last.result /= NORETURN

Leave(res, entry) ==
    /\ Install(IF res.r = NORETURN \/ res.s.spin THEN res.s ELSE restart(res.s))
    /\ last' = [entry EXCEPT !.result =
                   IF res.s.spin THEN NORETURN ELSE res.r]

\* The buffer of the caller at the trap: a call that sends or notifies was
\* given the message m, any other call finds the buffer as it was left.
at_trap(s, function, m_ptr, m) ==
    IF function \in {SEND, SENDREC, NOTIFY} /\ m_ptr = BUF
    THEN [s EXCEPT !.mem[s.proc_ptr] = m]
    ELSE s

\* What the stack may hold where BuildMess builds a message: it matters
\* only to a call that can deliver a notification built there.
StackOf(s, function, src_dst, Js) ==
    IF \/ /\ function = ALERT
          /\ isokprocn(src_dst)
          /\ is_waiting_for(s, src_dst, s.proc_ptr)
       \/ /\ function \in {RECEIVE, SENDREC}
          /\ \E c \in Chunks : s.s_notify_pending[s.proc_ptr][c] /= {}
    THEN Js ELSE {ZeroJunk}

\* The running process traps into the kernel with one of the calls in Calls
\* (records of caller, function, flags, src_dst and m_ptr).
SysCall(Calls, Ms, Js) ==
    /\ Running
    /\ \E c \in Calls :
          /\ c.caller = proc_ptr
          /\ \E m \in (IF c.function \in {SEND, SENDREC, NOTIFY} /\ c.m_ptr = BUF
                       THEN Ms ELSE {ZeroMess}),
                junk \in StackOf(State, c.function, c.src_dst, Js),
                wild \in (IF has_bits(c.function, SEND) /\ c.src_dst = ANY
                          THEN Wild ELSE {OK}) :
                Leave(sys_call(at_trap(State, c.function, c.m_ptr, m),
                               c.function, c.flags, c.src_dst, c.m_ptr, junk,
                               wild),
                      Entry("sys_call", proc_ptr, c.function, c.src_dst, OK))

\* lock and unlock switch the interrupts of the processor off and on; a
\* primitive that does not return is never followed by unlock.
lock(s) == [s EXCEPT !.interrupts = "off"]
unlock(s) == [s EXCEPT !.interrupts = "on"]
Unlocked(res) ==
    IF res.r = NORETURN \/ res.s.spin THEN res
    ELSE [res EXCEPT !.s = unlock(res.s)]

\* A kernel task sends a reply.
lock_send(dst, m_ptr, m) ==
    Leave(Unlocked(mini_send(lock(at_trap(State, SEND, m_ptr, m)), proc_ptr,
                             dst, m_ptr, {NON_BLOCKING})),
          Entry("lock_send", proc_ptr, SEND, dst, OK))

LockSend(Ds, Ms) ==
    /\ Running
    /\ iskernelp(proc_ptr) /\ proc_ptr /= IDLE
    /\ \E dst \in Ds, m \in Ms : lock_send(dst, BUF, m)

\* An interrupt handler or a task alerts a process.
lock_alert(src, dst, junk) ==
    Leave(IF k_reenter >= 0
          THEN mini_alert(State, src, dst, junk)
          ELSE Unlocked(mini_alert(lock(State), src, dst, junk)),
          Entry("lock_alert", src, ALERT, dst, OK))

LockAlert(Ss, Ds, Js) ==
    /\ Running
    /\ \E src \in Ss, dst \in Ds :
          \E junk \in (IF is_waiting_for(State, dst, src) THEN Js
                       ELSE {ZeroJunk}) :
             lock_alert(src, dst, junk)

\* The clock task finds that a runnable process used up its quantum.
lock_sched(sched_ptr) ==
    Leave(Unlocked(Ret(sched(lock(State), sched_ptr), OK)),
          Entry("lock_sched", sched_ptr, 0, sched_ptr, OK))

LockSched(Ss) ==
    /\ Running
    /\ \E sched_ptr \in Ss : /\ p_rts_flags[sched_ptr] = {}
                             /\ lock_sched(sched_ptr)

(***************************************************************************)
(* The state after the boot image was loaded: the slots in free are marked *)
(* free, HARDWARE is never ready, every other process is ready on the      *)
(* queue of its priority (in the order of the process numbers), and the    *)
(* first pick_proc and restart were done.                                  *)
(***************************************************************************)
RECURSIVE boot(_, _)
boot(s, todo) ==
    IF todo = {} THEN restart(s)
    ELSE LET p == MinOf(todo) IN boot(ready(s, p), todo \ {p})

Blank(free) ==
    [ p_rts_flags |-> [p \in Slots |-> IF p \in free THEN {SLOT_FREE}
                                      ELSE IF p = HARDWARE THEN {NO_MAP}
                                      ELSE {}],
      p_getfrom |-> [p \in Slots |-> 0],
      p_sendto |-> [p \in Slots |-> 0],
      p_messbuf |-> [p \in Slots |-> NOBUF],
      p_caller_q |-> [p \in Slots |-> NIL_PROC],
      p_q_link |-> [p \in Slots |-> NIL_PROC],
      p_ntf_q |-> [p \in Slots |-> NIL_NTF],
      p_priority |-> [p \in Slots |-> p_max_priority(p)],
      p_full_quantums |-> [p \in Slots |-> QUANTUMS(p_max_priority(p))],
      p_sched_ticks |-> [p \in Slots |-> p_quantum_size(p)],
      p_nextready |-> [p \in Slots |-> NIL_PROC],
      s_notify_pending |-> [p \in Slots |-> [c \in Chunks |-> {}]],
      mem |-> [p \in Slots |-> ZeroMess],
      rdy_head |-> [q \in Queues |-> NIL_PROC],
      rdy_tail |-> [q \in Queues |-> NIL_PROC],
      proc_ptr |-> IDLE, next_ptr |-> IDLE, bill_ptr |-> IDLE,
      notify_buffer |-> [i \in NtfIndex |-> ZeroNtf],
      notify_bitmap |-> {},
      k_reenter |-> 0 - 1, interrupts |-> "on",
      spin |-> FALSE ]

Boot(free) ==
    LET s == boot(Blank(free), Slots \ (free \cup {HARDWARE}))
    IN  /\ p_rts_flags = s.p_rts_flags
        /\ k_reenter = s.k_reenter
        /\ interrupts = s.interrupts
        /\ p_getfrom = s.p_getfrom
        /\ p_sendto = s.p_sendto
        /\ p_messbuf = s.p_messbuf
        /\ p_caller_q = s.p_caller_q
        /\ p_q_link = s.p_q_link
        /\ p_ntf_q = s.p_ntf_q
        /\ p_priority = s.p_priority
        /\ p_full_quantums = s.p_full_quantums
        /\ p_sched_ticks = s.p_sched_ticks
        /\ p_nextready = s.p_nextready
        /\ s_notify_pending = s.s_notify_pending
        /\ mem = s.mem
        /\ rdy_head = s.rdy_head
        /\ rdy_tail = s.rdy_tail
        /\ proc_ptr = s.proc_ptr
        /\ next_ptr = s.next_ptr
        /\ bill_ptr = s.bill_ptr
        /\ notify_buffer = s.notify_buffer
        /\ notify_bitmap = s.notify_bitmap
        /\ last = Entry("boot", IDLE, 0, IDLE, OK)
        /\ entries = 0


(***************************************************************************)
(* Spec: message passing among the system task and two user processes,     *)
(* for MaxEntries kernel entries.  They send, receive and sendrec          *)
(* (blocking or not, to and from each other and themselves), the task      *)
(* replies with lock_send, and alerts arrive from interrupts.              *)
(***************************************************************************)
Three == {SYSTEM, 0, 1}

IpcCalls ==
    [caller : Three, function : {SEND, SENDREC}, flags : FlagSets,
     src_dst : Three, m_ptr : {BUF}]
    \cup [caller : Three, function : {RECEIVE}, flags : FlagSets,
          src_dst : Three \cup {ANY}, m_ptr : {BUF}]

IpcCall ==
    Counted(MaxEntries, SysCall(IpcCalls, UserMessages({1}, {0}), Junk))
IpcSend == Counted(MaxEntries, LockSend({0, 1}, UserMessages({1}, {0})))
IpcAlert == Counted(MaxEntries, LockAlert({HARDWARE, 0}, {1}, Junk))

Init == Boot({2, 3})

Next == IpcCall \/ IpcSend \/ IpcAlert

Spec == Init /\ [][Next]_vars

(***************************************************************************)
(* SpecSched: the same processes under the clock.  Every kind of call is   *)
(* made and lock_sched is called on runnable processes, for                *)
(* MaxSchedEntries kernel entries.                                         *)
(***************************************************************************)
SchedCalls ==
    [caller : Three, function : {SEND, SENDREC, ALERT, NOTIFY},
     flags : {{}, {NON_BLOCKING}}, src_dst : Three, m_ptr : {BUF}]
    \cup [caller : Three, function : {RECEIVE}, flags : {{}, {NON_BLOCKING}},
          src_dst : Three \cup {ANY}, m_ptr : {BUF}]

SchedCall ==
    Counted(MaxSchedEntries,
            SysCall(SchedCalls, UserMessages({1}, {0}), {ZeroJunk}))
SchedAlert ==
    Counted(MaxSchedEntries, LockAlert({HARDWARE}, {0, 1}, {ZeroJunk}))
SchedClock == Counted(MaxSchedEntries, LockSched(Three \cup {IDLE}))

NextSched == SchedCall \/ SchedAlert \/ SchedClock

SpecSched == Init /\ [][NextSched]_vars


(***************************************************************************)
(* SpecFifo: three clients (SYSTEM, 0 and 1) send to the server in slot 2, *)
(* which receives from ANY or from one client; all calls block, and the    *)
(* run is as long as the processes like.                                   *)
(***************************************************************************)
FifoServer == 2
FifoClients == {SYSTEM, 0, 1}

FifoCalls ==
    [caller : FifoClients, function : {SEND}, flags : {{}},
     src_dst : {FifoServer}, m_ptr : {BUF}]
    \cup [caller : {FifoServer}, function : {RECEIVE}, flags : {{}},
          src_dst : FifoClients \cup {ANY}, m_ptr : {BUF}]

FifoCall == Uncounted(SysCall(FifoCalls, UserMessages({1, 2}, {0}), {ZeroJunk}))

InitFifo == Boot({3})

NextFifo == FifoCall

SpecFifo == InitFifo /\ [][NextFifo]_vars


(***************************************************************************)
(* SpecNtf: the system task and two user processes notify and alert each   *)
(* other and receive, for MaxNtfEntries kernel entries.  The notification  *)
(* messages differ in type, argument and flags.                            *)
(***************************************************************************)
NtfCalls ==
    [caller : Three, function : {NOTIFY, ALERT}, flags : {{}},
     src_dst : Three, m_ptr : {BUF}]
    \cup [caller : Three, function : {RECEIVE}, flags : {{}, {NON_BLOCKING}},
          src_dst : Three \cup {ANY}, m_ptr : {BUF}]

NtfMessages == UserMessages({1, 2}, {0, 1})

NtfCall ==
    Counted(MaxNtfEntries,
            SysCall(NtfCalls, NtfMessages, {ZeroJunk}))
NtfAlert == Counted(MaxNtfEntries, LockAlert({HARDWARE}, {0, 1}, {ZeroJunk}))

NextNtf == NtfCall \/ NtfAlert

SpecNtf == Init /\ [][NextNtf]_vars


(***************************************************************************)
(* SpecCheck: the system task and three user processes (slot 3 is free)    *)
(* trap with every function code, process numbers in and around the table  *)
(* and good and bad message pointers, without blocking, or block in a      *)
(* RECEIVE, which lets the next process run; for MaxCheckEntries kernel    *)
(* entries.                                                                *)
(***************************************************************************)
OutOfTable == {NR_PROCS, 0 - NR_TASKS - 1}
Functions == 0 .. BADCALL

CheckCalls ==
    [caller : Slots, function : Functions, flags : {{NON_BLOCKING}},
     src_dst : {SYSTEM, 1, 3, ANY, NR_PROCS}, m_ptr : {BUF, BADPTR}]
    \cup [caller : Slots, function : {RECEIVE}, flags : {{}},
          src_dst : {ANY}, m_ptr : {BUF}]

CheckCall ==
    Counted(MaxCheckEntries,
            SysCall(CheckCalls, UserMessages({1}, {0}), {ZeroJunk}))

InitCheck == Boot({3})

NextCheck == CheckCall

SpecCheck == InitCheck /\ [][NextCheck]_vars

(***************************************************************************)
(* The ready queues under blocking sends and receives and the clock.       *)
(***************************************************************************)
QueueCalls ==
    [caller : Three, function : {SEND}, flags : {{}}, src_dst : Three,
     m_ptr : {BUF}]
    \cup [caller : Three, function : {RECEIVE}, flags : {{}},
          src_dst : {ANY}, m_ptr : {BUF}]

QueueCall ==
    Counted(MaxQueueEntries,
            SysCall(QueueCalls, UserMessages({1}, {0}), {ZeroJunk}))
QueueClock == Counted(MaxQueueEntries, LockSched(Three \cup {IDLE}))

NextQueues == QueueCall \/ QueueClock

SpecQueues == Init /\ [][NextQueues]_vars

(***************************************************************************)
(* The gateways at task level and inside interrupt handlers.  A hardware   *)
(* interrupt is taken when the interrupts are on: it switches them off and *)
(* counts the kernel entry; the return from the handler counts it down and *)
(* restores the interrupts of the code that was interrupted.  Processes    *)
(* trap only outside the kernel.                                           *)
(***************************************************************************)
Interrupt ==
    /\ Running
    /\ interrupts = "on"
    /\ k_reenter < MaxReenter
    /\ Install([State EXCEPT !.k_reenter = @ + 1, !.interrupts = "off"])
    /\ last' = Entry("hwint", proc_ptr, 0, 0, OK)

IntReturn ==
    /\ Running
    /\ k_reenter >= 0
    /\ Install([State EXCEPT !.k_reenter = @ - 1, !.interrupts = "on"])
    /\ last' = Entry("restart", proc_ptr, 0, 0, OK)

LockCalls ==
    [caller : Three, function : {RECEIVE}, flags : {{}, {NON_BLOCKING}},
     src_dst : {ANY, SYSTEM}, m_ptr : {BUF}]

LockTrap ==
    /\ k_reenter < 0
    /\ Counted(MaxLockEntries, SysCall(LockCalls, {ZeroMess}, {ZeroJunk}))
LockInterrupt == Uncounted(Interrupt)
LockReturn == Uncounted(IntReturn)
LockGateSend ==
    Counted(MaxLockEntries, LockSend({0, 1}, UserMessages({1}, {0})))
LockGateAlert ==
    Counted(MaxLockEntries, LockAlert({HARDWARE}, {0, 1}, {ZeroJunk}))
LockGateSched == Counted(MaxLockEntries, LockSched(Three))

NextLock ==
    \/ LockTrap \/ LockInterrupt \/ LockReturn
    \/ LockGateSend \/ LockGateAlert \/ LockGateSched

SpecLock == Init /\ [][NextLock]_vars


(***************************************************************************)
(* Reading the lists of a state.                                           *)
(***************************************************************************)
Range(f) == {f[i] : i \in DOMAIN f}
Count(seq, x) == Cardinality({i \in DOMAIN seq : seq[i] = x})

\* The slots linked from xp on, as far as fuel goes.
RECURSIVE Chain(_, _, _)
Chain(link, xp, fuel) ==
    IF xp = NIL_PROC \/ fuel = 0 THEN << >>
    ELSE << xp >> \o Chain(link, link[xp], fuel - 1)

CallerQ(s, q) == Chain(s.p_q_link, s.p_caller_q[q], Cardinality(Slots) + 1)
ReadyQ(s, q) == Chain(s.p_nextready, s.rdy_head[q], Cardinality(Slots) + 1)

\* The slots the deadlock check of a send to dst looks at: dst, and the
\* destination of each one that is SENDING.
RECURSIVE SendChain(_, _, _)
SendChain(s, xp, fuel) ==
    IF SENDING \notin s.p_rts_flags[xp] \/ fuel = 0 THEN << xp >>
    ELSE << xp >> \o SendChain(s, s.p_sendto[xp], fuel - 1)

SendPath(s, dst) == SendChain(s, dst, Cardinality(Slots) + 1)

\* Following sendto from dst, one step or more, arrives at caller.
ReachesCaller(s, dst, caller) ==
    \E i \in 2 .. Len(SendPath(s, dst)) : SendPath(s, dst)[i] = caller


(***************************************************************************)
(* The claims.                                                             *)
(***************************************************************************)

\* C1: in every reachable state, every slot whose p_rts_flags hold SENDING
\* is linked on the caller queue of exactly one slot q, once, and its
\* p_sendto is q.
C1_SenderOnOneQueue ==
    \A p \in Slots : SENDING \in p_rts_flags[p] =>
        /\ Cardinality({q \in Slots : p \in Range(CallerQ(State, q))}) = 1
        /\ \A q \in Slots : p \in Range(CallerQ(State, q)) =>
              /\ Count(CallerQ(State, q), p) = 1
              /\ p_sendto[p] = q

\* Two senders are blocked on the queue of the same destination.
C1_TwoSendersQueued ==
    \E q \in Slots :
        /\ Len(CallerQ(State, q)) >= 2
        /\ \A p \in Range(CallerQ(State, q)) :
              p /= q /\ SENDING \in p_rts_flags[p]

\* C2: after every completed operation a slot in use is linked on ready
\* queue q exactly when its p_rts_flags are empty and its p_priority is q:
\* no blocked slot is on a ready queue and no runnable slot is missing from
\* its queue.
C2_ReadyIffRunnable ==
    \A p \in Slots, q \in Queues :
        SLOT_FREE \notin p_rts_flags[p] =>
            ( p \in Range(ReadyQ(State, q))
              <=> (p_rts_flags[p] = {} /\ p_priority[p] = q) )

\* One process was demoted by sched and is on the queue below its own,
\* another one is blocked.
C2_DemotedAndBlocked ==
    /\ \E p \in Slots : /\ p_priority[p] > p_max_priority(p)
                        /\ p \in Range(ReadyQ(State, p_priority[p]))
    /\ \E p \in Slots : p_rts_flags[p] \cap {SENDING, RECEIVING} /= {}

\* C3: no slot is ever linked on its own caller queue.
C3_NotOnOwnQueue ==
    \A p \in Slots : p \notin Range(CallerQ(State, p))

\* C4: when the chain of p_sendto from dst through slots that are SENDING
\* reaches the caller, mini_send returns ELOCKED and leaves every field of
\* the state as it was.
C4_DeadlockRefused ==
    \A dst \in Slots, flags \in FlagSets :
        ReachesCaller(State, dst, proc_ptr) =>
            mini_send(State, proc_ptr, dst, BUF, flags) = Ret(State, ELOCKED)

\* A send was refused with ELOCKED at the end of a chain of two blocked
\* senders.
C4_LongChainRefused ==
    /\ last.op = "sys_call"
    /\ last.function \in {SEND, SENDREC}
    /\ last.result = ELOCKED
    /\ last.caller = proc_ptr
    /\ Len(SendPath(State, last.src_dst)) = 3
    /\ SendPath(State, last.src_dst)[3] = last.caller

\* C5: from every slot the chain of p_sendto over the slots that are SENDING
\* repeats no slot and is shorter than the process table, and the deadlock
\* check of mini_send ends for every caller and every destination.
C5_SendChainsEnd ==
    \A dst \in Slots :
        /\ Len(SendPath(State, dst)) <= Cardinality(Slots)
        /\ \A i, j \in DOMAIN SendPath(State, dst) :
              i /= j => SendPath(State, dst)[i] /= SendPath(State, dst)[j]
        /\ \A caller \in Slots :
              deadlock_walk(State, caller, dst, Cardinality(Slots)) /= "spin"

\* C6: when D is blocked in RECEIVE (RECEIVING set, SENDING clear) from ANY
\* or from the running process A, a SEND of A to D that passes the checks of
\* sys_call returns OK, D's buffer holds A's message stamped with A as the
\* source, D's RECEIVING flag is cleared, nobody was queued or blocked, and A
\* and D are both on the ready queue of their priority.
C6_Rendezvous ==
    \A D \in Slots, flags \in FlagSets :
        LET A == proc_ptr
            r == sys_call(State, SEND, flags, D, BUF, ZeroJunk, OK)
        IN  ( /\ RECEIVING \in p_rts_flags[D]
              /\ SENDING \notin p_rts_flags[D]
              /\ p_getfrom[D] \in {ANY, A}
              /\ sys_call_check(State, A, SEND, D, BUF, OK) = OK )
            => /\ r.r = OK
               /\ r.s.mem[D] = [mem[A] EXCEPT !.m_source = A]
               /\ r.s.p_rts_flags[D] = p_rts_flags[D] \ {RECEIVING}
               /\ r.s.p_rts_flags[A] = {}
               /\ r.s.p_caller_q = p_caller_q
               /\ A \in Range(ReadyQ(r.s, r.s.p_priority[A]))
               /\ D \in Range(ReadyQ(r.s, r.s.p_priority[D]))

\* A SEND has just met a receiver that was waiting: the call returned OK,
\* the sender and the receiver are runnable and the receiver holds the
\* sender's message.
C6_Met ==
    /\ last.op = "sys_call"
    /\ last.function = SEND
    /\ last.result = OK
    /\ last.caller /= last.src_dst
    /\ p_rts_flags[last.caller] = {}
    /\ p_rts_flags[last.src_dst] = {}
    /\ mem[last.src_dst] = [mem[last.caller] EXCEPT !.m_source = last.caller]

(***************************************************************************)
(* What a receive has to choose from.                                      *)
(***************************************************************************)
\* The sources of the alerts pending for p.
PendingFrom(s, p) ==
    {id_to_nr(c * BITCHUNK_BITS + i) : c \in Chunks, i \in Bits} \cap
    {n \in Slots : (nr_to_id(n) % BITCHUNK_BITS)
                      \in s.s_notify_pending[p][nr_to_id(n) \div BITCHUNK_BITS]}

\* The notification buffers linked from np on, as far as fuel goes.
RECURSIVE NtfChain(_, _, _)
NtfChain(s, np, fuel) ==
    IF np = NIL_NTF \/ fuel = 0 THEN << >>
    ELSE << np >> \o NtfChain(s, s.notify_buffer[np].n_next, fuel - 1)

NtfQ(s, p) == NtfChain(s, s.p_ntf_q[p], NR_NOTIFY_BUFS + 1)

Wanted(src, n) == src = ANY \/ src = n

\* How many of the next k receives of D from ANY, made one after the other
\* without blocking, deliver the alert of S.
RECURSIVE AlertsDelivered(_, _, _, _)
AlertsDelivered(s, D, S, k) ==
    IF k = 0 THEN 0
    ELSE LET r == mini_receive(s, D, ANY, BUF, {NON_BLOCKING}, ZeroJunk)
         IN  IF r.r /= OK THEN 0
             ELSE (IF /\ r.s.s_notify_pending[D] /= s.s_notify_pending[D]
                      /\ r.s.mem[D].m_source = S
                      /\ r.s.mem[D].m_type = NOTIFY_FROM(S)
                   THEN 1 ELSE 0)
                  + AlertsDelivered(r.s, D, S, k - 1)

\* The first place of the queue Q that holds a sender src accepts.
FirstWanted(Q, src) ==
    CHOOSE i \in DOMAIN Q :
        /\ Wanted(src, Q[i])
        /\ \A j \in 1 .. (i - 1) : ~ Wanted(src, Q[j])

Without(Q, i) == SubSeq(Q, 1, i - 1) \o SubSeq(Q, i + 1, Len(Q))

NothingPending(s, p) == PendingFrom(s, p) = {} /\ s.p_ntf_q[p] = NIL_NTF

\* What C7 asks of one kernel entry.
FifoStep ==
    LET who == last'.caller
        Q == CallerQ(State, who)
        src == last'.src_dst
    IN  /\ \A p \in Slots :
              SENDING \in p_rts_flags[p] /\ SENDING \in p_rts_flags'[p]
                  => mem'[p] = mem[p]
        /\ \A d \in Slots :
              ( /\ last'.function = SEND
                /\ last'.src_dst = d
                /\ SENDING \in p_rts_flags'[who] )
              => Chain(p_q_link', p_caller_q'[d], Cardinality(Slots) + 1)
                     = Append(CallerQ(State, d), who)
        /\ ( /\ last'.function = RECEIVE
             /\ sys_call_check(State, who, RECEIVE, src, BUF, OK) = OK
             /\ NothingPending(State, who)
             /\ \E i \in DOMAIN Q : Wanted(src, Q[i]) )
           => LET i == FirstWanted(Q, src)
              IN  /\ last'.result = OK
                  /\ mem'[who] = [mem[Q[i]] EXCEPT !.m_source = Q[i]]
                  /\ Chain(p_q_link', p_caller_q'[who], Cardinality(Slots) + 1)
                         = Without(Q, i)
                  /\ p_rts_flags' =
                         [p_rts_flags EXCEPT ![Q[i]] = @ \ {SENDING}]

\* C7: senders that block on D are queued behind those already waiting and
\* their messages stay as sent; a RECEIVE of D with no notification pending
\* delivers the message of the first queued sender it accepts (any sender
\* for ANY, the sender src for src), wakes that sender only, and leaves the
\* others queued in their order.
C7_SenderQueueFifo == [][FifoStep]_vars

\* The server has just taken the message of the third of three queued
\* clients; the other two are still queued in the order they came.
C7_TookThird ==
    /\ last.function = RECEIVE
    /\ last.caller = FifoServer
    /\ last.src_dst = 1
    /\ last.result = OK
    /\ p_rts_flags[FifoServer] = {}
    /\ mem[FifoServer].m_source = 1
    /\ CallerQ(State, FifoServer) = << SYSTEM, 0 >>
    /\ \A p \in {SYSTEM, 0} : SENDING \in p_rts_flags[p]

\* C8: a SENDREC to D whose send half returns OK makes its receive half with
\* FRESH_ANSWER in effect: the call clears no pending bit of the caller and
\* takes no record from its p_ntf_q.
C8_SendrecKeepsNotifications ==
    \A D \in Slots, flags \in FlagSets :
        LET A == proc_ptr
            r == sys_call(State, SENDREC, flags, D, BUF, ZeroJunk, OK)
        IN  ( /\ sys_call_check(State, A, SENDREC, D, BUF, OK) = OK
              /\ mini_send(State, A, D, BUF, flags).r = OK )
            => /\ r.s.s_notify_pending[A] = s_notify_pending[A]
               /\ NtfQ(r.s, A) = NtfQ(State, A)

\* C9: when a receive without FRESH_ANSWER by a caller that is not SENDING
\* has a pending notification of a source it accepts and a queued sender it
\* accepts, it delivers a notification and leaves the caller queue and the
\* flags of every other slot as they were.
C9_NotificationFirst ==
    \A src \in Slots \cup {ANY}, flags \in SUBSET {NON_BLOCKING} :
        LET D == proc_ptr
            r == mini_receive(State, D, src, BUF, flags, ZeroJunk)
        IN  ( /\ SENDING \notin p_rts_flags[D]
              /\ \/ \E n \in PendingFrom(State, D) : Wanted(src, n)
                 \/ \E np \in Range(NtfQ(State, D)) :
                       Wanted(src, notify_buffer[np].n_source)
              /\ \E x \in Range(CallerQ(State, D)) : Wanted(src, x) )
            => /\ r.r = OK
               /\ \/ r.s.s_notify_pending[D] /= s_notify_pending[D]
                  \/ NtfQ(r.s, D) /= NtfQ(State, D)
               /\ CallerQ(r.s, D) = CallerQ(State, D)
               /\ r.s.p_rts_flags = p_rts_flags

NtfKeys(s, p) ==
    [i \in DOMAIN NtfQ(s, p) |->
        << s.notify_buffer[NtfQ(s, p)[i]].n_source,
           s.notify_buffer[NtfQ(s, p)[i]].n_type >>]

\* The state in which the running process has written m to its buffer.
Wrote(s, m) == [s EXCEPT !.mem[s.proc_ptr] = m]

\* C11: when D is not waiting for the running process S, a mini_notify of S
\* with a message of the type of an earlier one changes nothing but the
\* flags and the argument of the one record of (S, type), which keeps its
\* place in D's queue, and takes no buffer; and no queue ever holds two
\* records of the same source and type.
C11_NotifyReplaces ==
    /\ \A D \in Slots :
          \A i, j \in DOMAIN NtfKeys(State, D) :
              i /= j => NtfKeys(State, D)[i] /= NtfKeys(State, D)[j]
    /\ \A D \in Slots,
          m1 \in UserMessages({1, 2}, {0}) \cup UserMessages({1, 2}, {1}) :
        \A m2 \in {m \in NtfMessages : m.m_type = m1.m_type} :
          LET S == proc_ptr
              n1 == mini_notify(Wrote(State, m1), S, D, BUF)
              s1 == Wrote(n1.s, m2)
              n2 == mini_notify(s1, S, D, BUF)
              at == {np \in Range(NtfQ(n1.s, D)) :
                        /\ n1.s.notify_buffer[np].n_source = S
                        /\ n1.s.notify_buffer[np].n_type = m1.m_type}
          IN  ( /\ ~ is_waiting_for(State, D, S)
                /\ n1.r = OK )
              => /\ n2.r = OK
                 /\ Cardinality(at) = 1
                 /\ \A np \in at :
                       n2.s = [s1 EXCEPT
                                 !.notify_buffer[np].n_flags = m2.NOTIFY_FLAGS,
                                 !.notify_buffer[np].n_arg = m2.NOTIFY_ARG]

\* The running process has notified a destination that was not receiving,
\* behind the record of another type: a second notification of its type
\* finds its record in the second place.
C11_RecordQueued ==
    /\ last.op = "sys_call"
    /\ last.function = NOTIFY
    /\ last.result = OK
    /\ last.caller = proc_ptr
    /\ Len(NtfQ(State, last.src_dst)) = 2
    /\ NtfKeys(State, last.src_dst)[2] = << proc_ptr, mem[proc_ptr].m_type >>

\* The message of type k a process notifies with.
TypeMess(k) ==
    [m_source |-> 0, m_type |-> k, NOTIFY_ARG |-> k, NOTIFY_FLAGS |-> 0]

\* The result of the k-th of the notifications of types 1, 2, ... that the
\* running process sends to D one after the other.
RECURSIVE Notified(_, _, _)
Notified(s, D, k) ==
    IF k = 0 THEN Ret(s, OK)
    ELSE mini_notify(Wrote(Notified(s, D, k - 1).s, TypeMess(k)),
                     s.proc_ptr, D, BUF)

\* C12: with all NR_NOTIFY_BUFS buffers free, NR_NOTIFY_BUFS + 1
\* notifications of distinct types to a D that is not receiving give OK for
\* the first NR_NOTIFY_BUFS and ENOSPC for the last, which leaves the
\* queue, the bitmap and every record as they were, the queue holding the
\* first NR_NOTIFY_BUFS records in the order they came; and whenever no
\* buffer is free, a notification that finds no record to replace returns
\* ENOSPC and changes nothing.
C12_PoolExhausted ==
    \A D \in Slots :
        LET S == proc_ptr
            N == NR_NOTIFY_BUFS
        IN  /\ ( /\ notify_bitmap = {}
                 /\ NtfQ(State, D) = << >>
                 /\ ~ is_waiting_for(State, D, S) )
               => /\ \A k \in 1 .. N :
                        /\ Notified(State, D, k).r = OK
                        /\ NtfKeys(Notified(State, D, k).s, D) =
                               [i \in 1 .. k |-> << S, i >>]
                  /\ Notified(State, D, N + 1) =
                         Ret(Wrote(Notified(State, D, N).s, TypeMess(N + 1)),
                             ENOSPC)
            /\ \A m \in NtfMessages :
                  ( /\ notify_bitmap = NtfIndex
                    /\ ~ is_waiting_for(State, D, S)
                    /\ << S, m.m_type >> \notin Range(NtfKeys(State, D)) )
                  => mini_notify(Wrote(State, m), S, D, BUF) =
                         Ret(Wrote(State, m), ENOSPC)

\* The pool is used up: the running process has sent NR_NOTIFY_BUFS
\* notifications to a destination that holds them all in its queue.
C12_PoolFull ==
    /\ last.op = "sys_call"
    /\ last.function = NOTIFY
    /\ last.result = OK
    /\ last.caller = proc_ptr
    /\ notify_bitmap = NtfIndex
    /\ Len(NtfQ(State, last.src_dst)) = NR_NOTIFY_BUFS
    /\ ~ is_waiting_for(State, last.src_dst, proc_ptr)

\* C13: for no source S and destination D is D's pending bit of S set while
\* D's notification queue holds a record of source S.
C13_BitOrRecord ==
    \A S \in Slots, D \in Slots :
        ~ ( /\ S \in PendingFrom(State, D)
            /\ \E i \in DOMAIN NtfKeys(State, D) : NtfKeys(State, D)[i][1] = S )

(***************************************************************************)
(* The checks of sys_call.                                                 *)
(***************************************************************************)
CheckErrors == {ECALLDENIED, EBADSRCDST, EFAULT, EDEADDST, EBADCALL}

\* Calls that carry a message (a bit of SENDREC is set in the function) and
\* calls that send (the bit of SEND is set).
CarriesMessage(function) == function % 4 /= 0
Sends(function) == function % 2 = 1

\* The first error of the list of C14 that applies to a call of the running
\* process, OK when none does.
FirstError(function, src_dst, m_ptr) ==
    LET caller == proc_ptr
    IN  IF function \notin s_call_mask(caller) THEN ECALLDENIED
        ELSE IF src_dst < 0 /\ function /= SENDREC THEN ECALLDENIED
        ELSE IF src_dst \notin Slots \cup {ANY} /\ function /= ECHO
        THEN EBADSRCDST
        ELSE IF CarriesMessage(function) /\ m_ptr = BADPTR THEN EFAULT
        ELSE IF Sends(function) /\ (src_dst + NR_TASKS) \notin s_send_mask(caller)
        THEN ECALLDENIED
        ELSE IF Sends(function) /\ p_rts_flags[src_dst] = {SLOT_FREE}
        THEN EDEADDST
        ELSE IF function \notin {SEND, RECEIVE, SENDREC, ALERT, NOTIFY, ECHO}
        THEN EBADCALL
        ELSE OK

\* C14: a call of which every check reads inside the process table returns
\* the first error that applies, in the order privilege, process number,
\* message pointer, send mask, dead destination, unknown function, and no
\* other call returns one of these errors; and whenever sys_call returns
\* one of them the kernel state is as it was.
C14_FirstErrorNoEffect ==
    \A function \in Functions, src_dst \in Slots \cup {ANY} \cup OutOfTable,
       m_ptr \in {BUF, BADPTR} :
      \A wild \in (IF Sends(function) /\ src_dst = ANY THEN Wild ELSE {OK}) :
        LET r == sys_call(State, function, {}, src_dst, m_ptr, ZeroJunk, wild)
            e == FirstError(function, src_dst, m_ptr)
        IN  /\ r.r \in CheckErrors => r.s = State
            /\ (src_dst \in Slots \/ ~ Sends(function) \/ function = ECHO) =>
                  IF e /= OK THEN r.r = e ELSE r.r \notin CheckErrors

\* A call with a bad message pointer to a free slot the caller may send to
\* was refused with EFAULT, the earlier error of the two.
C14_PointerBeforeDeadSlot ==
    /\ last.op = "sys_call"
    /\ last.function = SEND
    /\ last.src_dst = 3
    /\ p_rts_flags[3] = {SLOT_FREE}
    /\ last.result = EFAULT
    /\ last.caller = 2

(***************************************************************************)
(* Scheduling.                                                             *)
(***************************************************************************)
\* The slots sched demotes: runnable, PREEMPTIBLE, on their last full
\* quantum, with a queue below theirs that is not the queue of IDLE.
Demoted(sp) ==
    /\ p_rts_flags[sp] = {}
    /\ PREEMPTIBLE \in s_flags(sp)
    /\ p_full_quantums[sp] - 1 <= 0
    /\ p_priority[sp] + 1 < IDLE_Q

\* C15: sched on a runnable PREEMPTIBLE slot at priority k whose
\* p_full_quantums drops to 0 or below, with k + 1 < IDLE_Q, takes the slot
\* off queue k and leaves it on queue k + 1 with p_priority k + 1,
\* p_full_quantums QUANTUMS(k + 1) and p_sched_ticks p_quantum_size; a slot
\* that ready puts at the head of a queue k + 1 that was not empty ends at
\* its tail, behind the slots that were there, in their order.
C15_Demotion ==
    \A sp \in Slots :
        Demoted(sp) =>
            LET k == p_priority[sp]
                n == sched(State, sp)
            IN  /\ sp \notin Range(ReadyQ(n, k))
                /\ Count(ReadyQ(n, k + 1), sp) = 1
                /\ n.p_priority[sp] = k + 1
                /\ n.p_full_quantums[sp] = QUANTUMS(k + 1)
                /\ n.p_sched_ticks[sp] = p_quantum_size(sp)
                /\ (RDY_Q_HEAD \in s_flags(sp) /\ rdy_head[k + 1] /= NIL_PROC) =>
                      /\ ReadyQ(n, k + 1) = Append(ReadyQ(State, k + 1), sp)
                      /\ n.rdy_tail[k + 1] = sp

\* User 0, which ready puts at the head of a queue, was demoted to the
\* queue user 1 was on and is behind it.
C15_DemotedBehind ==
    /\ last.op = "lock_sched"
    /\ last.caller = 0
    /\ RDY_Q_HEAD \in s_flags(0)
    /\ p_priority[0] = p_max_priority(0) + 1
    /\ ReadyQ(State, p_priority[0]) = << 1, 0 >>

\* C16: after every operation that touches the ready queues (ready, unready,
\* sched, and the calls that block or wake a slot) next_ptr is a slot whose
\* p_rts_flags are empty and that is linked on the ready queue of its
\* priority; IDLE is on the last queue throughout.
C16_NextRunnable ==
    /\ IDLE \in Range(ReadyQ(State, IDLE_Q))
    /\ p_rts_flags[next_ptr] = {}
    /\ next_ptr \in Range(ReadyQ(State, p_priority[next_ptr]))

\* Every process but IDLE is blocked in a receive, and IDLE was elected.
C16_OnlyIdleLeft ==
    /\ last.op = "sys_call"
    /\ last.function = RECEIVE
    /\ \A p \in Three : RECEIVING \in p_rts_flags[p]
    /\ next_ptr = IDLE
    /\ proc_ptr = IDLE

(***************************************************************************)
(* The gateways.                                                           *)
(***************************************************************************)
\* C17: every gateway (lock_send, lock_alert, lock_ready, lock_unready,
\* lock_sched) calls its primitive without touching the interrupts when
\* k_reenter >= 0 and switches them off and on again only when
\* k_reenter < 0: the interrupts are never on while the kernel is entered.
C17_OffWhileEntered ==
    k_reenter >= 0 => interrupts = "off"

(***************************************************************************)
(* Waiting for a reply.                                                    *)
(***************************************************************************)
\* C18: a slot that has RECEIVING set and SENDING clear is not linked on
\* the caller queue of any slot: the caller of a SENDREC whose message was
\* taken was unlinked before it waits for the reply.
C18_ReceiverNotQueued ==
    \A p \in Slots :
        (RECEIVING \in p_rts_flags[p] /\ SENDING \notin p_rts_flags[p]) =>
            \A q \in Slots : p \notin Range(CallerQ(State, q))

\* A receive took the message of a SENDREC from the head of a queue that
\* holds another sender: the caller of the SENDREC now waits for the reply.
C18_ReplyAwaited ==
    \E p \in Slots :
        /\ last.op = "sys_call"
        /\ last.function = RECEIVE
        /\ last.result = OK
        /\ mem[last.caller].m_source = p
        /\ p_rts_flags[p] = {RECEIVING}
        /\ p_getfrom[p] = last.caller
        /\ p_caller_q[last.caller] \notin {NIL_PROC, p}

(***************************************************************************)
(* Receiving from one source.                                              *)
(***************************************************************************)
\* C19: a receive from a source src other than ANY, without FRESH_ANSWER,
\* by a caller that is not SENDING and has the pending bit of src set
\* returns OK with a notification from src and clears that bit and no
\* other, whatever other bits are set in the map.
C19_PickupBySource ==
    \A src \in Slots, flags \in SUBSET {NON_BLOCKING} :
        LET D == proc_ptr
            id == nr_to_id(src)
            r == mini_receive(State, D, src, BUF, flags, ZeroJunk)
        IN  ( /\ SENDING \notin p_rts_flags[D]
              /\ (id % BITCHUNK_BITS)
                     \in s_notify_pending[D][id \div BITCHUNK_BITS] )
            => /\ r.r = OK
               /\ r.s.mem[D].m_source = src
               /\ r.s.s_notify_pending =
                     [s_notify_pending EXCEPT
                        ![D][id \div BITCHUNK_BITS] = @ \ {id % BITCHUNK_BITS}]

(***************************************************************************)
(* Calls that do not block.                                                *)
(***************************************************************************)
\* The chain of p_sendto from dst over the slots that are SENDING comes to
\* a slot that is not SENDING.
SendPathEnds(s, dst) ==
    SENDING \notin s.p_rts_flags[SendPath(s, dst)[Len(SendPath(s, dst))]]

\* A receive of D from src has nothing to take: no sender it accepts is
\* queued and, unless FRESH_ANSWER keeps it from looking, no notification
\* it accepts is pending or queued.
NothingToReceive(s, D, src, flags) ==
    /\ \A x \in Range(CallerQ(s, D)) : ~ Wanted(src, x)
    /\ FRESH_ANSWER \notin flags =>
          /\ \A n \in PendingFrom(s, D) : ~ Wanted(src, n)
          /\ \A np \in Range(NtfQ(s, D)) :
                ~ Wanted(src, s.notify_buffer[np].n_source)

\* The runnable caller is on its ready queue and on no caller queue.
OnlyReady(s, C) ==
    /\ s.p_rts_flags[C] = {}
    /\ Count(ReadyQ(s, s.p_priority[C]), C) = 1
    /\ \A q \in Slots : C \notin Range(CallerQ(s, q))

FirstQueue(s) == MinOf({q \in Queues : s.rdy_head[q] /= NIL_PROC})

\* C21: after every completed operation next_ptr is the head of the first
\* ready queue that is not empty, also when unready took a slot that is
\* neither proc_ptr nor next_ptr off its queue and did not call pick_proc.
Elected(s) ==
    (\E q \in Queues : s.rdy_head[q] /= NIL_PROC) =>
        s.next_ptr = s.rdy_head[FirstQueue(s)]

C21_NextIsFirstHead ==
    /\ \E q \in Queues : rdy_head[q] /= NIL_PROC
    /\ Elected(State)
    /\ \A rp \in Slots :
          IF p_rts_flags[rp] = {}
          THEN Elected(unready(State, rp)) /\ Elected(sched(State, rp))
          ELSE Elected(ready(State, rp))

\* sched demoted a slot that was neither running nor elected: unready took
\* it off its queue without electing anybody.
C21_DemotedBystander ==
    /\ last.op = "lock_sched"
    /\ last.caller \notin {proc_ptr, next_ptr}
    /\ p_priority[last.caller] = p_max_priority(last.caller) + 1
    /\ p_full_quantums[last.caller] = QUANTUMS(p_priority[last.caller])
    /\ proc_ptr = SYSTEM

\* The slot has the priority and the quantums it was given at the start.
AtCeiling(s, p) ==
    /\ s.p_priority[p] = p_max_priority(p)
    /\ s.p_full_quantums[p] = QUANTUMS(p_max_priority(p))

\* The slot runs again: it is on the ready queue of its p_max_priority.
WokenAtCeiling(s, p) ==
    s.p_rts_flags[p] = {} =>
        AtCeiling(s, p) /\ Count(ReadyQ(s, p_max_priority(p)), p) = 1

\* C22: every slot blocked by a send or a receive has p_priority equal to
\* p_max_priority and p_full_quantums equal to QUANTUMS(p_max_priority)
\* while it is blocked; and the running process, demoted or not, that
\* blocks in a send to a runnable D or in a receive from D has them so at
\* once, and is put on the ready queue of p_max_priority when D takes its
\* message or sends it one.
C22_BlockingUndemotes ==
    /\ \A p \in Slots :
          p_rts_flags[p] \cap {SENDING, RECEIVING} /= {} => AtCeiling(State, p)
    /\ LET C == proc_ptr
       IN  p_rts_flags[C] = {} =>
             \A D \in Slots \ {C} :
                p_rts_flags[D] = {} =>
                   LET b == mini_send(State, C, D, BUF, {})
                       w == mini_receive(b.s, D, C, BUF, {}, ZeroJunk)
                       c == mini_receive(State, C, D, BUF, {}, ZeroJunk)
                       v == mini_send(c.s, D, C, BUF, {})
                   IN  /\ b.r = OK /\ b.s.p_rts_flags[C] = {SENDING}
                       /\ AtCeiling(b.s, C)
                       /\ WokenAtCeiling(w.s, C)
                       /\ RECEIVING \in c.s.p_rts_flags[C] =>
                             /\ AtCeiling(c.s, C)
                             /\ v.s.p_rts_flags[C] = {}
                             /\ WokenAtCeiling(v.s, C)

\* The running process was demoted by sched and runs because the process
\* before it has just blocked in a receive; another slot is runnable.
C22_DemotedRuns ==
    /\ last.op = "sys_call"
    /\ last.function = RECEIVE
    /\ p_rts_flags[last.caller] = {RECEIVING}
    /\ p_rts_flags[proc_ptr] = {}
    /\ p_priority[proc_ptr] > p_max_priority(proc_ptr)
    /\ \E D \in Slots \ {proc_ptr} : p_rts_flags[D] = {}

(***************************************************************************)
(* The send half of SENDREC.                                               *)
(***************************************************************************)
\* The slot is blocked in the send half of a SENDREC.
InSendHalf(s, p) == {SENDING, RECEIVING} \subseteq s.p_rts_flags[p]

\* The call left the flags and the message buffer of p as they were.
Untouched(r, p) ==
    /\ r.s.p_rts_flags[p] = p_rts_flags[p]
    /\ r.s.mem[p] = mem[p]

\* What a send, an alert and a notification addressed to a slot in its send
\* half do: nothing is delivered, the alert becomes a pending bit, the
\* sender that may block is queued, the notification is queued or refused.
SendHalfKeepsOut ==
    \A p \in Slots :
        InSendHalf(State, p) =>
            /\ \A flags \in SUBSET {NON_BLOCKING} :
                  LET r == mini_send(State, proc_ptr, p, BUF, flags)
                  IN  /\ Untouched(r, p)
                      /\ (r.r = OK /\ proc_ptr /= p) =>
                            proc_ptr \in Range(CallerQ(r.s, p))
            /\ \A S \in Slots \ {p} :
                  LET r == mini_alert(State, S, p, ZeroJunk)
                  IN  /\ Untouched(r, p)
                      /\ r.r = OK
                      /\ S \in PendingFrom(r.s, p)
            /\ LET r == mini_notify(Wrote(State, TypeMess(1)), proc_ptr, p, BUF)
               IN  /\ Untouched(r, p)
                   /\ \/ r.r = ENOSPC
                      \/ << proc_ptr, 1 >> \in Range(NtfKeys(r.s, p))

\* In one step a slot in its send half keeps RECEIVING and its message
\* buffer and stays blocked, and loses SENDING only in a receive of the
\* slot it sends to.
SendHalfStep ==
    \A p \in Slots :
        InSendHalf(State, p) =>
            /\ RECEIVING \in p_rts_flags'[p]
            /\ mem'[p] = mem[p]
            /\ SENDING \notin p_rts_flags'[p] =>
                  /\ last'.op = "sys_call"
                  /\ last'.caller = p_sendto[p]
                  /\ last'.function \in {RECEIVE, SENDREC}
                  /\ last'.result = OK
                  /\ mem'[p_sendto[p]].m_source = p

\* C23: a slot blocked in the send half of SENDREC (SENDING and RECEIVING
\* set) receives nothing until its message was taken: no send, alert or
\* notification addressed to it changes its message buffer or clears
\* RECEIVING (alerts become pending bits, senders are queued), and it is
\* not runnable before a receive of its destination cleared SENDING and a
\* later delivery cleared RECEIVING.
C23_SendHalfFirst ==
    [] SendHalfKeepsOut /\ [][SendHalfStep]_vars

\* An alert to a slot in its send half became a pending bit.
C23_AlertKeptPending ==
    /\ last.function = ALERT
    /\ last.result = OK
    /\ p_rts_flags[last.src_dst] = {SENDING, RECEIVING}
    /\ p_getfrom[last.src_dst] \in {ANY, last.caller}
    /\ last.caller \in PendingFrom(State, last.src_dst)

(***************************************************************************)
(* The shape of the ready queues.                                          *)
(***************************************************************************)
\* Every chain from rdy_head ends without a slot twice, rdy_tail is its
\* last slot (NIL_PROC when there is none), and no slot is on two queues.
WellFormed(s) ==
    /\ \A q \in Queues :
          LET chain == ReadyQ(s, q)
          IN  /\ Len(chain) <= Cardinality(Slots)
              /\ \A i, j \in DOMAIN chain : i /= j => chain[i] /= chain[j]
              /\ IF s.rdy_head[q] = NIL_PROC
                 THEN s.rdy_tail[q] = NIL_PROC
                 ELSE /\ s.rdy_tail[q] = chain[Len(chain)]
                      /\ s.p_nextready[s.rdy_tail[q]] = NIL_PROC
    /\ \A q1, q2 \in Queues :
          q1 /= q2 => Range(ReadyQ(s, q1)) \cap Range(ReadyQ(s, q2)) = {}

\* C24: the ready queues are well formed after every sequence of ready,
\* unready and sched: each chain from rdy_head[q] over p_nextready is
\* finite and repeats no slot, rdy_head[q] is NIL_PROC exactly when no
\* runnable slot has priority q, rdy_tail[q] is the last slot of a chain
\* that is not empty, and no slot is linked twice or on two queues; so are
\* the queues that unready and sched make of them for every runnable slot
\* and ready for every slot that is not runnable.
C24_QueuesWellFormed ==
    /\ WellFormed(State)
    /\ \A q \in Queues :
          rdy_head[q] = NIL_PROC
             <=> ~ \E p \in Slots : p_rts_flags[p] = {} /\ p_priority[p] = q
    /\ \A rp \in Slots :
          IF p_rts_flags[rp] = {}
          THEN WellFormed(unready(State, rp)) /\ WellFormed(sched(State, rp))
          ELSE WellFormed(ready(State, rp))

\* sched rotated a queue that holds one slot, after unready had taken the
\* tail off that queue to demote it.
C24_RotatedAlone ==
    /\ last.op = "lock_sched"
    /\ PREEMPTIBLE \in s_flags(last.caller)
    /\ ReadyQ(State, p_max_priority(last.caller)) = << last.caller >>
    /\ p_full_quantums[last.caller] = QUANTUMS(p_max_priority(last.caller)) - 1
    /\ \E p \in Slots \ {last.caller} :
          /\ p_max_priority(p) = p_max_priority(last.caller)
          /\ ReadyQ(State, p_max_priority(p) + 1) = << p >>

\* Every slot with a ceiling above the queue of IDLE is on a queue from its
\* ceiling down to the one before IDLE_Q.
Bounded(s) ==
    \A p \in Slots :
        p_max_priority(p) < IDLE_Q =>
            p_max_priority(p) <= s.p_priority[p] /\ s.p_priority[p] < IDLE_Q

\* C25: in every reachable state every slot whose p_max_priority is below
\* IDLE_Q has p_max_priority <= p_priority < IDLE_Q, and one more sched or
\* unready of any runnable slot keeps it so: sched never moves a process
\* to the queue of IDLE and nothing raises it above its ceiling.
C25_DemotionBounded ==
    /\ Bounded(State)
    /\ \A rp \in Slots :
          p_rts_flags[rp] = {} =>
             Bounded(sched(State, rp)) /\ Bounded(unready(State, rp))

\* A process on the last queue before IDLE_Q is on its last full quantum
\* there: the next sched finds no queue to demote it to.
C25_LastQueueLastQuantum ==
    /\ last.op = "lock_sched"
    /\ PREEMPTIBLE \in s_flags(last.caller)
    /\ p_rts_flags[last.caller] = {}
    /\ p_priority[last.caller] = IDLE_Q - 1
    /\ p_full_quantums[last.caller] = 1
    /\ sched(State, last.caller).p_priority[last.caller] = IDLE_Q - 1
=============================================================================
